---- MODULE Spec2Model ----
(***************************************************************************)
(* Model of @zitadel/fastify-auth: the FastifyAuth plugin (registration,   *)
(* catch-all route, per-request handler), getSession and getBasePath.      *)
(* Strings the code inspects character by character (route patterns, URL   *)
(* paths) are sequences of one-character strings.                          *)
(***************************************************************************)
EXTENDS Integers, Sequences, FiniteSets, TLC

VARIABLES
    host,       \* the Fastify root instance: content-type parsers, exposeHeadRoutes
    instances,  \* per mount prefix: the encapsulated instance the plugin ran in
    config,     \* the one FastifyAuthConfig object shared by every registration
    requests,   \* per request id: position in the route handler, engine call, reply
    session,    \* one getSession call: inbound request, synthetic request, outcome
    basePath    \* one getBasePath call: route pattern and result

vars == <<host, instances, config, requests, session, basePath>>

\* ------------------------------------------------------------------ bounds

NumRequests == 2
MaxPrefixLen == 4

\* ----------------------------------------------------------------- strings

Undefined == <<"undefined">>

\* '/*', the url of the route (line 214) and the separator getBasePath splits on
WildcardSuffix == <<"/", "*">>

AuthPrefix == <<"/", "a", "u", "t", "h">>
AdminAuthPrefix == <<"/", "a", "d", "m", "i", "n", "/", "a", "u", "t", "h">>
Prefixes == {AuthPrefix, AdminAuthPrefix}

StartsWith(s, pre) ==
    /\ Len(pre) <= Len(s)
    /\ SubSeq(s, 1, Len(pre)) = pre

\* String.prototype.indexOf: the first position sep occurs at in s, 0 when none
IndexOf(s, sep) ==
    LET hits == { i \in 1..(Len(s) - Len(sep) + 1) :
                     SubSeq(s, i, i + Len(sep) - 1) = sep }
    IN IF hits = {} THEN 0
       ELSE CHOOSE i \in hits : \A j \in hits : i <= j

\* s.split(sep)[0]: everything before the first occurrence of sep, all of s
\* when sep does not occur
SplitFirst(s, sep) ==
    IF IndexOf(s, sep) = 0 THEN s ELSE SubSeq(s, 1, IndexOf(s, sep) - 1)

\* getBasePath applied to the url stored in a route's config
getBasePath(routeUrl) == SplitFirst(routeUrl, WildcardSuffix)

\* ------------------------------------------------- host framework (Fastify)

FormContentType == "application/x-www-form-urlencoded"

Methods == {"GET", "POST", "PUT", "DELETE", "PATCH", "HEAD", "OPTIONS"}

\* the parsers a Fastify instance is born with
DefaultParsers == [ct \in {"application/json", "text/plain"} |-> "fastify"]

NewHost(expose) ==
    [parsers |-> DefaultParsers, exposeHeadRoutes |-> expose, ready |-> FALSE]

\* the encapsulated instance a plugin function receives: it inherits the
\* parent's content-type parsers and starts without routes
ChildInstance(parent) ==
    [loaded |-> FALSE, error |-> "", parsers |-> parent.parsers,
     hadParser |-> FormContentType \in DOMAIN parent.parsers,
     formbodyRegistrations |-> 0, routes |-> <<>>]

NoInstance ==
    [loaded |-> FALSE, error |-> "", parsers |-> DefaultParsers,
     hadParser |-> FALSE, formbodyRegistrations |-> 0, routes |-> <<>>]

hasContentTypeParser(inst, ct) == ct \in DOMAIN inst.parsers

\* fastify.register(formbody): the formbody plugin adds a parser for
\* application/x-www-form-urlencoded to the instance; the framework rejects
\* a content type that already has one
registerFormbody(inst) ==
    IF FormContentType \in DOMAIN inst.parsers
    THEN [inst EXCEPT !.error = "FST_ERR_CTP_ALREADY_PRESENT",
                      !.formbodyRegistrations = @ + 1]
    ELSE [inst EXCEPT !.parsers = @ @@ (FormContentType :> "formbody"),
                      !.formbodyRegistrations = @ + 1]

\* a registration that forgets the guard
FormBodyStepUnguarded(inst) == registerFormbody(inst)

\* lines 206-209: register the form body parser if not already registered
FormBodyStep(inst) ==
    IF ~hasContentTypeParser(inst, FormContentType)
    THEN registerFormbody(inst)
    ELSE inst

\* a route that answers GET only
RouteMethodsGetOnly == {"GET"}

\* line 213: the method list of the route
RouteMethods == {"GET", "POST"}

\* lines 211-220: fastify.route({method, url: '/*', handler}); the framework
\* stores the url with the instance's prefix in front of it. Not reached
\* when the step before it threw.
RouteStep(inst, prefix) ==
    IF inst.error # "" THEN inst
    ELSE [inst EXCEPT
            !.routes = Append(@, [method |-> RouteMethods,
                                  url |-> prefix \o WildcardSuffix]),
            !.loaded = TRUE]

\* lines 205-221: the plugin function run on its instance
PluginLoad(inst, prefix) == RouteStep(FormBodyStep(inst), prefix)

\* the router: a route answers its listed methods and, when the host exposes
\* HEAD routes, HEAD for a route that lists GET
MethodMatches(route, m) ==
    \/ m \in route.method
    \/ m = "HEAD" /\ host.exposeHeadRoutes /\ "GET" \in route.method

\* a pattern X/* matches every path that starts with X/
PathMatches(route, path) ==
    StartsWith(path, SubSeq(route.url, 1, Len(route.url) - 1))

MatchingRoutes(m, path) ==
    { pi \in UNION { { <<p, i>> : i \in 1..Len(instances[p].routes) } :
                        p \in Prefixes } :
        /\ MethodMatches(instances[pi[1]].routes[pi[2]], m)
        /\ PathMatches(instances[pi[1]].routes[pi[2]], path) }

\* ------------------------------------------------------ engine and replies

\* what the engine (Auth) may answer a routed request with
R302 == [status |-> 302,
         headers |-> << <<"location", "/signin">> >>,
         body |-> ""]
R200 == [status |-> 200,
         headers |-> << <<"content-type", "application/json">>,
                        <<"set-cookie", "sid=1">> >>,
         body |-> "{}"]
NoResponse == [status |-> 0, headers |-> <<>>, body |-> ""]
EngineResponses == {R302, R200}

EngineErrors == {"AuthError"}

\* what this layer has written onto a reply: status writes, header writes
\* and sends, each in order
FreshReply == [statusWrites |-> <<>>, headerWrites |-> <<>>, sends |-> <<>>]

NoWebRequest == [method |-> "", url |-> <<>>]

\* lib: the canonical request built from the framework request
toWebRequest(m, path) == [method |-> m, url |-> path]

\* lib: the canonical response replayed onto the reply: the status, every
\* header pair, then the body
toFastifyReply(response, reply) ==
    [statusWrites |-> Append(reply.statusWrites, response.status),
     headerWrites |-> reply.headerWrites \o response.headers,
     sends |-> Append(reply.sends, response.body)]

\* a handler that drops the engine's answer
HandlerReturnNothing(response, reply) == reply

\* line 218: return toFastifyReply(response, reply)
HandlerReturn(response, reply) == toFastifyReply(response, reply)

Requests == 1..NumRequests

IdleRequest ==
    [pc |-> "idle", method |-> "", url |-> <<>>, routeUrl |-> <<>>,
     prefix |-> <<>>, web |-> NoWebRequest, engineCalls |-> 0,
     engineRead |-> FALSE, seenBasePath |-> Undefined,
     response |-> NoResponse, error |-> "", propagated |-> "",
     reply |-> FreshReply]

\* the sub-paths requests ask for under a mount prefix
SubPaths == { <<"/", "s">>, <<"/">> }
Paths == { p \o sp : p \in Prefixes, sp \in SubPaths }

\* a handler that answers an engine failure itself
HandlerOnRejectFallback(req) ==
    [req EXCEPT !.pc = "failed", !.propagated = req.error,
                !.reply = [@ EXCEPT !.statusWrites = Append(@, 500)]]

\* line 217: the awaited engine call rejected; nothing catches it, so the
\* handler's promise rejects with the same error and line 218 is not reached
HandlerOnReject(req) ==
    [req EXCEPT !.pc = "failed", !.propagated = req.error]

\* lines 217-218: the awaited engine call resolved
HandlerOnResolve(req) ==
    [req EXCEPT !.pc = "done", !.reply = HandlerReturn(req.response, req.reply)]

\* ------------------------------------------------------------- configuration

\* setEnvDefaults(process.env, config): fills what the host left out from the
\* environment; a field the host set is kept, so applying it twice changes
\* nothing more
setEnvDefaults(cfg) ==
    [cfg EXCEPT !.secret = IF @ = "" THEN "env:AUTH_SECRET" ELSE @]

HostConfig == [basePath |-> Undefined, secret |-> "", providers |-> "GitHub"]

\* line 203: FastifyAuth(config) applies the defaults before returning the plugin
InitConfig == setEnvDefaults(HostConfig)

\* a handler that rebuilds the config around the base path
HandlerConfigRebuilt(cfg, routeUrl) ==
    [HostConfig EXCEPT !.basePath = getBasePath(routeUrl)]

\* line 216: config.basePath = getBasePath(request), a write to one field of
\* the object the host passed in
HandlerConfig(cfg, routeUrl) ==
    [cfg EXCEPT !.basePath = getBasePath(routeUrl)]

\* ---------------------------------------------------------------- getSession

HeaderNames == {"cookie", "authorization", "host"}
HeaderValues == {"v1", "v2"}
InboundHeaders == UNION { [S -> HeaderValues] : S \in SUBSET HeaderNames }

NoFields == [k \in {} |-> ""]

\* parsed JSON values: kind, len (the number, or the length of a string or
\* array) and the members of an object
JNull == [kind |-> "null", len |-> 0, fields |-> NoFields]
JFalse == [kind |-> "boolean", len |-> 0, fields |-> NoFields]
JTrue == [kind |-> "boolean", len |-> 1, fields |-> NoFields]
JNum(n) == [kind |-> "number", len |-> n, fields |-> NoFields]
JStr(n) == [kind |-> "string", len |-> n, fields |-> NoFields]
JArr(n) == [kind |-> "array", len |-> n, fields |-> NoFields]
JObj(f) == [kind |-> "object", len |-> 0, fields |-> f]

JsonValues ==
    { JNull, JFalse, JTrue, JNum(0), JNum(5), JStr(0), JStr(3), JArr(0), JArr(1),
      JObj(NoFields),
      JObj([k \in {"message"} |-> "invalid"]),
      JObj([k \in {"user"} |-> "id:1"]),
      JObj([k \in {"url"} |-> "/auth/error"]) }

\* a response body on the wire: none at all, zero bytes, bytes that are not
\* JSON, or the text of a JSON value
Bodies ==
    { [form |-> f, value |-> JNull] : f \in {"none", "empty", "invalid"} }
    \cup { [form |-> "json", value |-> v] : v \in JsonValues }

Statuses == {200, 201, 204, 302, 401, 500}

\* a response whose status field is missing has hasStatus = FALSE
SessionResponses ==
    { [hasStatus |-> TRUE, status |-> st, body |-> b] : st \in Statuses, b \in Bodies }
    \cup { [hasStatus |-> FALSE, status |-> 0, body |-> b] : b \in Bodies }

NoSessionResponse == [hasStatus |-> FALSE, status |-> 0, body |-> [form |-> "none", value |-> JNull]]

\* createActionURL('session', req.protocol, new Headers(req.headers), env, config)
createActionURL(action, protocol, headers, cfg) ==
    [action |-> action, protocol |-> protocol,
     host |-> IF "host" \in DOMAIN headers THEN headers["host"] ELSE "",
     basePath |-> cfg.basePath]

NoUrl == [action |-> "", protocol |-> "", host |-> "", basePath |-> Undefined]
NoSynthetic == [url |-> NoUrl, headers |-> NoFields]

\* a synthetic request that forwards every inbound header
SessionRequestAllHeaders(protocol, headers, cfg) ==
    [url |-> createActionURL("session", protocol, headers, cfg),
     headers |-> IF "cookie" \in DOMAIN headers THEN headers
                 ELSE headers @@ [k \in {"cookie"} |-> ""]]

\* lines 257-268: new Request(url, {headers: {cookie: req.headers.cookie ?? ''}})
SessionRequest(protocol, headers, cfg) ==
    [url |-> createActionURL("session", protocol, headers, cfg),
     headers |-> [k \in {"cookie"} |->
                    IF "cookie" \in DOMAIN headers THEN headers["cookie"] ELSE ""]]

\* a status read without the default
StatusOfNoDefault(response) == response.status

\* line 271: const { status = 200 } = response
StatusOf(response) == IF response.hasStatus THEN response.status ELSE 200

\* !data
Falsy(v) ==
    \/ v.kind = "null"
    \/ v.kind \in {"boolean", "number", "string"} /\ v.len = 0

\* Object.keys(data).length
ObjectKeysLength(v) ==
    IF v.kind = "object" THEN Cardinality(DOMAIN v.fields)
    ELSE IF v.kind \in {"string", "array"} THEN v.len
    ELSE 0

\* new Error(data.message).message: a missing message gives the empty text
ErrorMessage(v) ==
    IF v.kind = "object" /\ "message" \in DOMAIN v.fields
    THEN v.fields["message"] ELSE ""

Returned(v) == [kind |-> "return", value |-> v, error |-> "", message |-> ""]
Thrown(e, msg) == [kind |-> "throw", value |-> JNull, error |-> e, message |-> msg]
NoOutcome == [kind |-> "", value |-> JNull, error |-> "", message |-> ""]

\* a result that takes only 4xx and 5xx for failure
SessionResultErrorsOnly(status, data) ==
    IF Falsy(data) \/ ObjectKeysLength(data) = 0 THEN Returned(JNull)
    ELSE IF status < 400 THEN Returned(data)
    ELSE Thrown("Error", ErrorMessage(data))

\* lines 274-280
SessionResult(status, data) ==
    IF Falsy(data) \/ ObjectKeysLength(data) = 0 THEN Returned(JNull)
    ELSE IF status = 200 THEN Returned(data)
    ELSE Thrown("Error", ErrorMessage(data))

\* lines 271-280: response.json() rejects unless the body is the text of a
\* JSON value
SessionOutcome(response) ==
    IF response.body.form # "json"
    THEN Thrown("SyntaxError", "Unexpected end of JSON input")
    ELSE SessionResult(StatusOf(response), response.body.value)

SessionIdle ==
    [pc |-> "idle", protocol |-> "", inbound |-> NoFields,
     synthetic |-> NoSynthetic, response |-> NoSessionResponse,
     outcome |-> NoOutcome]

\* --------------------------------------------------------------- getBasePath

Alphabet == {"/", "*", "a"}
Strings(n) == UNION { [1..k -> Alphabet] : k \in 0..n }

BasePathInputs ==
    { [pc |-> "input", prefix |-> P, pattern |-> P \o WildcardSuffix,
       result |-> <<>>] : P \in Strings(MaxPrefixLen) }

BasePathIdle ==
    [pc |-> "idle", prefix |-> <<>>, pattern |-> <<>>, result |-> <<>>]

\* ------------------------------------------------------------------- actions

\* the host registers its own parser for form bodies on the root instance
HostAddParser ==
    /\ ~host.ready
    /\ FormContentType \notin DOMAIN host.parsers
    /\ host' = [host EXCEPT !.parsers = @ @@ (FormContentType :> "host")]
    /\ UNCHANGED <<instances, config, requests, session, basePath>>

\* fastify.register(FastifyAuth(config), {prefix: p}): the plugin function
\* runs on a fresh child instance
RegisterPlugin(p) ==
    /\ ~host.ready
    /\ instances[p] = NoInstance
    /\ instances' = [instances EXCEPT ![p] = PluginLoad(ChildInstance(host), p)]
    /\ UNCHANGED <<host, config, requests, session, basePath>>

\* the host starts listening; nothing is registered after that
HostReady ==
    /\ ~host.ready
    /\ host' = [host EXCEPT !.ready = TRUE]
    /\ UNCHANGED <<instances, config, requests, session, basePath>>

\* the router finds no route for the request: the handler is never called
RouteMiss(r, m, path) ==
    /\ host.ready
    /\ requests[r].pc = "idle"
    /\ MatchingRoutes(m, path) = {}
    /\ requests' = [requests EXCEPT ![r] =
                      [@ EXCEPT !.pc = "notfound", !.method = m, !.url = path]]
    /\ UNCHANGED <<host, instances, config, session, basePath>>

\* lines 215-217 up to the await: the handler stores the base path on the
\* shared config and calls the engine
HandlerStart(r, m, path) ==
    /\ host.ready
    /\ requests[r].pc = "idle"
    /\ MatchingRoutes(m, path) # {}
    /\ LET pi == CHOOSE x \in MatchingRoutes(m, path) : TRUE
           route == instances[pi[1]].routes[pi[2]]
       IN /\ config' = HandlerConfig(config, route.url)
          /\ requests' = [requests EXCEPT ![r] =
                            [@ EXCEPT !.pc = "engine", !.method = m, !.url = path,
                                      !.routeUrl = route.url, !.prefix = pi[1],
                                      !.web = toWebRequest(m, path),
                                      !.engineCalls = @ + 1]]
    /\ UNCHANGED <<host, instances, session, basePath>>

\* the engine, running for request r, reads the base path off the config it
\* was handed (the same object for every request)
EngineReadConfig(r) ==
    /\ requests[r].pc = "engine"
    /\ ~requests[r].engineRead
    /\ requests' = [requests EXCEPT ![r] =
                      [@ EXCEPT !.engineRead = TRUE,
                                !.seenBasePath = config.basePath]]
    /\ UNCHANGED <<host, instances, config, session, basePath>>

\* the engine's promise resolves with a response
EngineRespond(r, resp) ==
    /\ requests[r].pc = "engine"
    /\ requests[r].engineRead
    /\ requests' = [requests EXCEPT ![r] =
                      [@ EXCEPT !.pc = "resolved", !.response = resp]]
    /\ UNCHANGED <<host, instances, config, session, basePath>>

\* the engine's promise rejects
EngineThrow(r, e) ==
    /\ requests[r].pc = "engine"
    /\ requests' = [requests EXCEPT ![r] =
                      [@ EXCEPT !.pc = "rejected", !.error = e]]
    /\ UNCHANGED <<host, instances, config, session, basePath>>

\* the handler continues after the await
HandlerResume(r) ==
    /\ requests[r].pc = "resolved"
    /\ requests' = [requests EXCEPT ![r] = HandlerOnResolve(@)]
    /\ UNCHANGED <<host, instances, config, session, basePath>>

HandlerReject(r) ==
    /\ requests[r].pc = "rejected"
    /\ requests' = [requests EXCEPT ![r] = HandlerOnReject(@)]
    /\ UNCHANGED <<host, instances, config, session, basePath>>

\* lines 255-269: getSession up to the await of the engine call
SessionCall(protocol, headers) ==
    /\ session.pc = "idle"
    /\ config' = setEnvDefaults(config)
    /\ session' = [session EXCEPT
                     !.pc = "engine", !.protocol = protocol, !.inbound = headers,
                     !.synthetic = SessionRequest(protocol, headers, setEnvDefaults(config))]
    /\ UNCHANGED <<host, instances, requests, basePath>>

SessionEngineRespond(resp) ==
    /\ session.pc = "engine"
    /\ session' = [session EXCEPT !.pc = "responded", !.response = resp]
    /\ UNCHANGED <<host, instances, config, requests, basePath>>

\* the engine call rejects: nothing catches it in getSession
SessionEngineThrow(e) ==
    /\ session.pc = "engine"
    /\ session' = [session EXCEPT !.pc = "rejected", !.outcome = Thrown(e, e)]
    /\ UNCHANGED <<host, instances, config, requests, basePath>>

\* lines 271-280
SessionFinish ==
    /\ session.pc = "responded"
    /\ session' = [session EXCEPT !.pc = "done",
                                  !.outcome = SessionOutcome(session.response)]
    /\ UNCHANGED <<host, instances, config, requests, basePath>>

\* lines 294-296 applied to the pattern
BasePathApply ==
    /\ basePath.pc = "input"
    /\ basePath' = [basePath EXCEPT !.pc = "done",
                                    !.result = getBasePath(basePath.pattern)]
    /\ UNCHANGED <<host, instances, config, requests, session>>

\* ------------------------------------------------------------ specifications

\* a host that exposes HEAD routes, listening, with the plugin registered
\* under both prefixes
ListeningHost == [NewHost(TRUE) EXCEPT !.ready = TRUE]

Init ==
    /\ host = ListeningHost
    /\ instances = [p \in Prefixes |-> PluginLoad(ChildInstance(NewHost(TRUE)), p)]
    /\ config = InitConfig
    /\ requests = [r \in Requests |-> IdleRequest]
    /\ session = SessionIdle
    /\ basePath = BasePathIdle

\* requests the route answers, any number of them in flight at once
Next ==
    \/ \E r \in Requests, m \in {"GET", "POST"}, p \in Prefixes :
          HandlerStart(r, m, p \o <<"/", "s">>)
    \/ \E r \in Requests : EngineReadConfig(r)
    \/ \E r \in Requests, resp \in EngineResponses : EngineRespond(r, resp)
    \/ \E r \in Requests, e \in EngineErrors : EngineThrow(r, e)
    \/ \E r \in Requests : HandlerResume(r)
    \/ \E r \in Requests : HandlerReject(r)

Spec == Init /\ [][Next]_vars

\* registration on a fresh host, then one request of any method
InitRegister ==
    /\ host \in { NewHost(e) : e \in BOOLEAN }
    /\ instances = [p \in Prefixes |-> NoInstance]
    /\ config = InitConfig
    /\ requests = [r \in Requests |-> IdleRequest]
    /\ session = SessionIdle
    /\ basePath = BasePathIdle

OtherPath == <<"/", "o">>

NextRegister ==
    \/ HostAddParser
    \/ \E p \in Prefixes : RegisterPlugin(p)
    \/ HostReady
    \/ \E m \in Methods, path \in Paths \cup {OtherPath} : HandlerStart(1, m, path)
    \/ \E m \in Methods, path \in Paths \cup {OtherPath} : RouteMiss(1, m, path)

SpecRegister == InitRegister /\ [][NextRegister]_vars

InitSession ==
    /\ host = ListeningHost
    /\ instances = [p \in Prefixes |-> NoInstance]
    /\ config = InitConfig
    /\ requests = [r \in Requests |-> IdleRequest]
    /\ session = SessionIdle
    /\ basePath = BasePathIdle

NextSession ==
    \/ \E h \in InboundHeaders : SessionCall("http", h)
    \/ \E resp \in SessionResponses : SessionEngineRespond(resp)
    \/ \E e \in EngineErrors : SessionEngineThrow(e)
    \/ SessionFinish

SpecSession == InitSession /\ [][NextSession]_vars

InitBasePath ==
    /\ host = ListeningHost
    /\ instances = [p \in Prefixes |-> NoInstance]
    /\ config = InitConfig
    /\ requests = [r \in Requests |-> IdleRequest]
    /\ session = SessionIdle
    /\ basePath \in BasePathInputs

NextBasePath == BasePathApply

SpecBasePath == InitBasePath /\ [][NextBasePath]_vars

\* -------------------------------------------------------------------- claims

\* the value holds something: an object with a member, an array with an
\* element, a text with a character
HasMembers(v) ==
    \/ v.kind = "object" /\ DOMAIN v.fields # {}
    \/ v.kind \in {"string", "array"} /\ v.len > 0

\* the engine reports success: status 200, or no status at all
ReportsSuccess(response) == ~response.hasStatus \/ response.status = 200

SessionAnswered == session.pc = "done"

\* C1: when the engine answers with a non-success status and a JSON body
\* that holds something, getSession throws an Error, its message the body's
\* message member when there is one, and returns nothing
C1_ThrowsEngineMessage ==
    (/\ SessionAnswered
     /\ session.response.body.form = "json"
     /\ HasMembers(session.response.body.value)
     /\ ~ReportsSuccess(session.response))
    => /\ session.outcome.kind = "throw"
       /\ session.outcome.error = "Error"
       /\ "message" \in DOMAIN session.response.body.value.fields
            => session.outcome.message = session.response.body.value.fields["message"]

C1_Witness ==
    /\ SessionAnswered
    /\ session.response.hasStatus /\ session.response.status = 401
    /\ session.response.body = [form |-> "json",
                                value |-> JObj([k \in {"message"} |-> "invalid"])]
    /\ session.outcome = Thrown("Error", "invalid")

\* C2: when the engine's response body is absent, zero bytes long, or a JSON
\* value that holds nothing, getSession returns null, whatever the status
C2_NullOnEmptyOrAbsent ==
    (/\ SessionAnswered
     /\ \/ session.response.body.form \in {"none", "empty"}
        \/ /\ session.response.body.form = "json"
           /\ ~HasMembers(session.response.body.value))
    => session.outcome = Returned(JNull)

\* C3: when the engine reports success (status 200, or no status) with a
\* JSON body that holds something, getSession returns that parsed value
C3_ReturnsParsedSession ==
    (/\ SessionAnswered
     /\ session.response.body.form = "json"
     /\ HasMembers(session.response.body.value)
     /\ ReportsSuccess(session.response))
    => session.outcome = Returned(session.response.body.value)

C3_Witness ==
    /\ SessionAnswered
    /\ ~session.response.hasStatus
    /\ session.response.body.form = "json"
    /\ session.response.body.value = JObj([k \in {"user"} |-> "id:1"])
    /\ session.outcome = Returned(JObj([k \in {"user"} |-> "id:1"]))

\* the path lies under the mount prefix of a loaded plugin instance
UnderLoadedPrefix(path) ==
    \E p \in Prefixes : instances[p].loaded /\ StartsWith(path, p \o <<"/">>)

Forwarded(req) ==
    /\ req.pc = "engine"
    /\ req.engineCalls = 1
    /\ req.web = [method |-> req.method, url |-> req.url]

OneCatchAllRoute ==
    \A p \in Prefixes :
        instances[p].loaded =>
            /\ Len(instances[p].routes) = 1
            /\ instances[p].routes[1].url = p \o WildcardSuffix

\* C4 as claimed: one catch-all route per registration, and a request of any
\* method under the prefix reaches the handler and is forwarded to the engine
C4_EveryMethodRouted ==
    /\ OneCatchAllRoute
    /\ \A r \in Requests :
          (requests[r].pc # "idle" /\ UnderLoadedPrefix(requests[r].url))
          => Forwarded(requests[r])

\* C4 amended: one catch-all route per registration; GET and POST under the
\* prefix reach the handler and are forwarded, HEAD does exactly when the
\* host exposes HEAD routes, and PUT, DELETE, PATCH and OPTIONS never do
C4_GetAndPostRouted ==
    /\ OneCatchAllRoute
    /\ \A r \in Requests :
          (requests[r].pc # "idle" /\ UnderLoadedPrefix(requests[r].url))
          => /\ requests[r].method \in {"GET", "POST"} => Forwarded(requests[r])
             /\ requests[r].method = "HEAD"
                  => (Forwarded(requests[r]) <=> host.exposeHeadRoutes)
             /\ requests[r].method \in {"PUT", "DELETE", "PATCH", "OPTIONS"}
                  => /\ requests[r].pc = "notfound"
                     /\ requests[r].engineCalls = 0

C4_Witness ==
    \E r \in Requests :
        /\ requests[r].method = "POST"
        /\ requests[r].url = AdminAuthPrefix \o <<"/", "s">>
        /\ Forwarded(requests[r])

\* C5: the base path the engine reads for a request is the mount prefix of
\* the route the request matched
C5_BasePathOfMatchedRoute ==
    \A r \in Requests :
        requests[r].engineRead => requests[r].seenBasePath = requests[r].prefix

\* C6: for a pattern P + '/*' getBasePath returns P
C6_StripsOnlySuffix ==
    basePath.pc = "done" => basePath.result = basePath.prefix

\* C7: the synthetic request carries the cookie header alone, the inbound
\* cookie or the empty text; any inbound request with the same cookie gives
\* the same synthetic headers
CookieOf(headers) == IF "cookie" \in DOMAIN headers THEN headers["cookie"] ELSE ""

C7_OnlyCookieForwarded ==
    session.pc # "idle" =>
        /\ DOMAIN session.synthetic.headers = {"cookie"}
        /\ session.synthetic.headers["cookie"] = CookieOf(session.inbound)
        /\ \A h \in InboundHeaders :
              CookieOf(h) = CookieOf(session.inbound)
              => SessionRequest("http", h, config).headers = session.synthetic.headers

C7_Witness ==
    /\ session.pc # "idle"
    /\ DOMAIN session.inbound = HeaderNames
    /\ session.synthetic.headers = [k \in {"cookie"} |-> session.inbound["cookie"]]

\* C8: the plugin registers the form body parser exactly when its instance
\* had none; registration never fails on a duplicate, and afterwards the
\* instance has one parser for the type: the host's, or formbody's
PluginRan(inst) == inst.loaded \/ inst.error # ""

C8_FormBodyOnlyWhenMissing ==
    \A p \in Prefixes :
        PluginRan(instances[p]) =>
            /\ instances[p].error = ""
            /\ instances[p].formbodyRegistrations = (IF instances[p].hadParser THEN 0 ELSE 1)
            /\ FormContentType \in DOMAIN instances[p].parsers
            /\ instances[p].parsers[FormContentType] =
                 (IF instances[p].hadParser THEN "host" ELSE "formbody")

C8_Witness ==
    /\ \E p \in Prefixes :
          /\ instances[p].loaded /\ instances[p].hadParser
          /\ instances[p].formbodyRegistrations = 0
    /\ \E p \in Prefixes :
          /\ instances[p].loaded /\ ~instances[p].hadParser
          /\ instances[p].formbodyRegistrations = 1

\* C9: the engine is called once per routed request, and when it throws the
\* handler fails with the same error and has written nothing to the reply
C9_EngineErrorPropagates ==
    \A r \in Requests :
        /\ requests[r].pc # "idle" => requests[r].engineCalls = 1
        /\ requests[r].pc = "failed" =>
              /\ requests[r].error \in EngineErrors
              /\ requests[r].propagated = requests[r].error
              /\ requests[r].reply = FreshReply

C9_Witness ==
    \E r \in Requests :
        /\ requests[r].pc = "failed"
        /\ requests[r].engineRead
        /\ requests[r].propagated = "AuthError"

\* how many times a pair was written
Count(seq, x) == Cardinality({ i \in 1..Len(seq) : seq[i] = x })

\* C10: once the handler has finished with a response, the reply carries the
\* response's status, each of its header pairs exactly once and unchanged,
\* and was sent once, with the response's body
C10_ReplyMirrorsResponse ==
    \A r \in Requests :
        requests[r].pc = "done" =>
            /\ requests[r].reply.statusWrites = << requests[r].response.status >>
            /\ \A i \in 1..Len(requests[r].response.headers) :
                  Count(requests[r].reply.headerWrites, requests[r].response.headers[i]) = 1
            /\ Len(requests[r].reply.headerWrites) = Len(requests[r].response.headers)
            /\ requests[r].reply.sends = << requests[r].response.body >>

C10_Witness ==
    \E r \in Requests :
        /\ requests[r].pc = "done"
        /\ requests[r].response = R302
        /\ requests[r].reply.statusWrites = <<302>>
        /\ requests[r].reply.headerWrites = << <<"location", "/signin">> >>

\* the handler of request r runs up to its engine call in this step
HandlerRuns(r) == requests[r].pc = "idle" /\ requests'[r].pc = "engine"

OtherFieldsAsSupplied(cfg) ==
    /\ DOMAIN cfg = DOMAIN InitConfig
    /\ \A f \in DOMAIN InitConfig \ {"basePath"} : cfg[f] = InitConfig[f]

\* C11: a step in which a handler runs leaves the config with the base path
\* computed for that request, written by the time the engine is called, and
\* with every other field as the host supplied it; no other step of the
\* handler touches the config
C11_OnlyBasePathWritten ==
    [][ /\ OtherFieldsAsSupplied(config) /\ OtherFieldsAsSupplied(config')
        /\ \A r \in Requests :
              HandlerRuns(r) =>
                 /\ config'.basePath = getBasePath(requests'[r].routeUrl)
                 /\ requests'[r].engineCalls = 1
                 /\ requests'[r].routeUrl = requests'[r].prefix \o WildcardSuffix
        /\ (\A r \in Requests : ~HandlerRuns(r)) => config' = config ]_vars

C11_Witness ==
    \E r1, r2 \in Requests :
        /\ requests[r1].prefix = AuthPrefix /\ requests[r1].pc = "resolved"
        /\ requests[r2].prefix = AdminAuthPrefix /\ requests[r2].pc = "engine"
        /\ ~requests[r2].engineRead
        /\ config = [InitConfig EXCEPT !.basePath = AdminAuthPrefix]

====
